---- MODULE Spec2Model ----
(***************************************************************************)
(* Model of ABTesting_Audacity/Audacity.py: a script that runs five        *)
(* bootstrap significance tests (homepage click through rate, enrollment   *)
(* rate, average reading duration, average classroom time, completion      *)
(* rate) and then prints the four course p-values.                         *)
(*                                                                         *)
(* Numbers.  A Python/numpy float is the record [nan, v]: NaN, or the      *)
(* exact rational v / Scale (Scale is divisible by every possible row      *)
(* count, so every ratio and mean of the model is exact; float rounding is *)
(* not modelled).  A value of the null distribution is z * std(diffs); it  *)
(* is kept as [nan, ssq, den], standing for sgn(ssq)*sqrt(|ssq|)/den in    *)
(* the same unit, so that the comparison with obs_diff is exact.           *)
(***************************************************************************)
EXTENDS Integers, Sequences, FiniteSets, TLC

\* ---------------------------------------------------------------- bounds
\* rows of a csv file
MaxRows == 3
\* stands for the 10000 of `for _ in range(10000)`
NumIter == 2
\* number of states of the abstract random generator
RngMod == 7
\* magnitude of the values drawn for the significance test on its own
MaxVal == 2
\* length of the null distribution drawn for the significance test on its own
MaxNull == 3

\* ------------------------------------------------------ program constants
SeedValue == 42
Iterations == 10000
AlphaNum == 5
AlphaDen == 100
NumTests == 4

Ids == {1, 2}
Groups == {"control", "experiment"}
Durations == {1, 2}
Days == {1, 2}

HomepageRows == [id : Ids, group : Groups, action : {"view", "click"}]
CourseRows == [id : Ids, group : Groups, action : {"view", "enroll"}, duration : Durations]
ClassroomRows == [id : Ids, group : Groups, total_days : Days, completed : BOOLEAN]

Tables(rows) == UNION {[1..k -> rows] : k \in 0..MaxRows}

Tests == <<"homepage_ctr", "enrollment_rate", "reading_duration", "classroom_time", "completion_rate">>
TestSet == {Tests[i] : i \in 1..Len(Tests)}

\* the csv file a test reads (tests 3 and 5 reuse the df of the test before)
FileRows(t) ==
  IF t = "homepage_ctr" THEN HomepageRows
  ELSE IF t \in {"enrollment_rate", "reading_duration"} THEN CourseRows
  ELSE ClassroomRows

\* ---------------------------------------------------------------- floats
RECURSIVE Fact(_)
Fact(k) == IF k <= 1 THEN 1 ELSE k * Fact(k - 1)
Scale == Fact(MaxRows)

NaN == [nan |-> TRUE, v |-> 0]
Num(x) == [nan |-> FALSE, v |-> x]
FSub(a, b) == IF a.nan \/ b.nan THEN NaN ELSE Num(a.v - b.v)
\* a / b for Python ints a, b; b = 0 raises instead (RatioRaises), so the
\* value given for it here is never used by the script
TrueDiv(a, b) == IF b = 0 THEN NaN ELSE Num((a * Scale) \div b)
SgnSq(x) == IF x < 0 THEN -(x * x) ELSE x * x

RECURSIVE SeqSum(_)
SeqSum(s) == IF s = <<>> THEN 0 ELSE Head(s) + SeqSum(Tail(s))

\* ------------------------------------------------------------- DataFrame
\* df.query('group == ...') and df.query('action == ...')
InGroup(tbl, g) == LET P(r) == r.group = g IN SelectSeq(tbl, P)
WithAction(tbl, a) == LET P(r) == r.action = a IN SelectSeq(tbl, P)
NUnique(tbl) == Cardinality({tbl[i].id : i \in 1..Len(tbl)})

\* Series.mean(): NaN for an empty series, else sum / count
SeriesMean(vals) ==
  IF Len(vals) = 0 THEN NaN ELSE Num((SeqSum(vals) * Scale) \div Len(vals))

Column(tbl, field) ==
  [i \in 1..Len(tbl) |->
     IF field = "duration" THEN tbl[i].duration
     ELSE IF field = "total_days" THEN tbl[i].total_days
     ELSE IF tbl[i].completed THEN 1 ELSE 0]

\* ------------------------------------------------------ metric extraction
TargetAction(t) == IF t = "homepage_ctr" THEN "click" ELSE "enroll"
IsRatio(t) == t \in {"homepage_ctr", "enrollment_rate"}
MeanField(t) ==
  IF t = "reading_duration" THEN "duration"
  ELSE IF t = "classroom_time" THEN "total_days" ELSE "completed"

\* denominator of the ratio: unique users of the group with a view
Views(tbl, g) == NUnique(WithAction(InGroup(tbl, g), "view"))
Clicks(tbl, g, t) == NUnique(WithAction(InGroup(tbl, g), TargetAction(t)))

\* int / int raises ZeroDivisionError when the group has no view
\* (RatioRaisesNever: the variant that, like a numpy float division, does not)
RatioRaisesNever(tbl, g) == FALSE
RatioRaises(tbl, g) == Views(tbl, g) = 0
RatioStat(tbl, g, t) == TrueDiv(Clicks(tbl, g, t), Views(tbl, g))
MeanStat(tbl, g, t) == SeriesMean(Column(InGroup(tbl, g), MeanField(t)))

Stat(tbl, g, t) == IF IsRatio(t) THEN RatioStat(tbl, g, t) ELSE MeanStat(tbl, g, t)

\* ------------------------------------------------------- random generator
\* numpy's global generator, abstracted: a state in 0..RngMod-1 that every
\* draw advances by one, and a fixed output function of the state.  Seeding
\* sets the state from the seed; an unseeded process starts in any state.
RngStates == 0..(RngMod - 1)
Seed(s) == s % RngMod
Advance(s, k) == (s + k) % RngMod
Out(s) == (5 * s + 3) % RngMod

\* df.sample(df.shape[0], replace=True): one row index drawn per row
\* (BootstrapSampleShort: the variant drawing one row too few)
BootstrapSampleShort(tbl, s) ==
  [j \in 1..(Len(tbl) - 1) |-> tbl[(Out(Advance(s, j - 1)) % Len(tbl)) + 1]]
BootstrapSample(tbl, s) ==
  [j \in 1..Len(tbl) |-> tbl[(Out(Advance(s, j - 1)) % Len(tbl)) + 1]]

\* a standard normal deviate, quantised to -1, 0, 1
Deviate(s) == (Out(s) % 3) - 1

\* ------------------------------------------------------ null distribution
NaNNull == [nan |-> TRUE, ssq |-> 0, den |-> 1]
HasNaN(ds) == \E i \in 1..Len(ds) : ds[i].nan
Values(ds) == [i \in 1..Len(ds) |-> ds[i].v]
Squares(ds) == [i \in 1..Len(ds) |-> ds[i].v * ds[i].v]

\* (Len * diffs.std())^2; NaN for an empty array or one holding a NaN
StdSq(ds) ==
  IF Len(ds) = 0 \/ HasNaN(ds) THEN NaN
  ELSE Num(Len(ds) * SeqSum(Squares(ds)) - SeqSum(Values(ds)) * SeqSum(Values(ds)))

\* np.random.normal(0, diffs.std(), diffs.size), drawn from generator state s
Normal(ds, s) ==
  [i \in 1..Len(ds) |->
     IF StdSq(ds).nan THEN NaNNull
     ELSE [nan |-> FALSE,
           ssq |-> SgnSq(Deviate(Advance(s, i - 1))) * StdSq(ds).v,
           den |-> Len(ds)]]

\* ------------------------------------------------------ significance test
\* x > d for a null value x and a float d; any comparison with NaN is False
Greater(x, d) == ~x.nan /\ ~d.nan /\ x.ssq > SgnSq(x.den * d.v)

\* (GreaterEq, CountGreaterEq: the variant with >= for >)
GreaterEq(x, d) == ~x.nan /\ ~d.nan /\ x.ssq >= SgnSq(x.den * d.v)
RECURSIVE CountGreaterEq(_, _)
CountGreaterEq(nv, d) ==
  IF nv = <<>> THEN 0
  ELSE (IF GreaterEq(Head(nv), d) THEN 1 ELSE 0) + CountGreaterEq(Tail(nv), d)

RECURSIVE CountGreater(_, _)
CountGreater(nv, d) ==
  IF nv = <<>> THEN 0
  ELSE (IF Greater(Head(nv), d) THEN 1 ELSE 0) + CountGreater(Tail(nv), d)

NaNP == [nan |-> TRUE, num |-> 0, den |-> 1]
\* (null_vals > obs_diff).mean(): NaN for an empty array
PValueOf(nv, d) ==
  IF Len(nv) = 0 THEN NaNP
  ELSE [nan |-> FALSE, num |-> CountGreater(nv, d), den |-> Len(nv)]

\* p < a/b for a p-value p; False for NaN
PLess(p, a, b) == ~p.nan /\ p.num * b < a * p.den

\* the conclusion the script states after each test
StatedConclusion(t) == IF t = "completion_rate" THEN "cannot reject" ELSE "reject"

\* ---------------------------------------------------------- report
metrics == <<"Enrollment Rate", "Average Reading Duration", "Average Classroom Time", "Completion Rate">>
\* the metrics the script states to be significant after the correction
StatedSignificant == {"Average Reading Duration"}

\* ------------------------------------------------------------------ state
VARIABLES
  pc,              \* position in the script
  test,            \* the metric test the script is in
  run,             \* 1: first run of the script, 2: a second run on the same file
  first,           \* what the first run's homepage test produced (kept for run 2)
  n,               \* number of loop iterations (the script's 10000)
  rng,             \* state of numpy's global generator
  df, b_sample,
  control_ctr, experiment_ctr, control_mean, experiment_mean,
  obs_diff, diffs, null_vals, p_value, p_values,
  conclusion,      \* the conclusion stated after the test: "none" before
  report,          \* the lines printed by the report loop
  significant,     \* the metrics stated as significant after the report
  error            \* the uncaught exception that ended the script, or "none"

vars == <<pc, test, run, first, n, rng, df, b_sample, control_ctr, experiment_ctr,
          control_mean, experiment_mean, obs_diff, diffs, null_vals, p_value,
          p_values, conclusion, report, significant, error>>

NoFirst == [df |-> <<>>, diffs |-> <<>>, null_vals |-> <<>>, p_value |-> NaNP]

\* the names of the script before their first assignment
Fresh ==
  /\ pc = "read_csv" /\ test = "homepage_ctr"
  /\ df = <<>> /\ b_sample = <<>>
  /\ control_ctr = NaN /\ experiment_ctr = NaN
  /\ control_mean = NaN /\ experiment_mean = NaN
  /\ obs_diff = NaN /\ diffs = <<>> /\ null_vals = <<>>
  /\ p_value = NaNP /\ p_values = <<>>
  /\ conclusion = "none" /\ report = <<>> /\ significant = {}
  /\ error = "none"

Init ==
  /\ Fresh
  /\ run = 1 /\ first = NoFirst
  /\ n = NumIter
  /\ rng \in RngStates

\* ---------------------------------------------------------------- actions
\* where an exception raised at position p takes the script: no statement of
\* the script is inside a try, so it ends the script (Swallowed: the variant
\* that goes on where it was)
Swallowed(p) == p
Uncaught(p) == "aborted"

\* df = pd.read_csv(...): any table of the file's schema; a second run reads
\* the file the first run read
ReadCsv ==
  /\ pc = "read_csv"
  /\ IF run = 2 THEN df' = first.df ELSE df' \in Tables(FileRows(test))
  /\ pc' = "statistics"
  /\ UNCHANGED <<test, run, first, n, rng, b_sample, control_ctr, experiment_ctr,
                 control_mean, experiment_mean, obs_diff, diffs, null_vals, p_value,
                 p_values, conclusion, report, significant, error>>

\* the cells printing the basic statistics of the file just read:
\* df.timestamp.min()[:10] fails on an empty df (the minimum is nan), and
\* df.action.unique()[1] fails when df holds fewer than two distinct actions
\* (the classroom file has no such cell)
ActionsOf(tbl) == {tbl[i].action : i \in 1..Len(tbl)}

Statistics ==
  /\ pc = "statistics"
  /\ IF Len(df) = 0
     THEN pc' = Uncaught(pc) /\ error' = "TypeError"
     ELSE IF test # "classroom_time" /\ Cardinality(ActionsOf(df)) < 2
     THEN pc' = Uncaught(pc) /\ error' = "IndexError"
     ELSE pc' = "observed" /\ error' = error
  /\ UNCHANGED <<test, run, first, n, rng, df, b_sample, control_ctr, experiment_ctr,
                 control_mean, experiment_mean, obs_diff, diffs, null_vals, p_value,
                 p_values, conclusion, report, significant>>

\* the observed statistics of the two groups, obs_diff, and diffs = []; the
\* reading duration test takes its means from df: views and reading_times,
\* assigned in the cell before, are read by no later statement and are not
\* part of the state
\* (the ratio tests and the completion rate assign control_ctr/experiment_ctr,
\* the two mean tests control_mean/experiment_mean)
ObservedCtr == test \in {"homepage_ctr", "enrollment_rate", "completion_rate"}

Observed ==
  /\ pc = "observed"
  /\ IF IsRatio(test) /\ RatioRaises(df, "control")
     THEN /\ pc' = Uncaught(pc) /\ error' = "ZeroDivisionError"
          /\ UNCHANGED <<control_ctr, experiment_ctr, control_mean, experiment_mean,
                         obs_diff, diffs>>
     ELSE IF IsRatio(test) /\ RatioRaises(df, "experiment")
     THEN /\ pc' = Uncaught(pc) /\ error' = "ZeroDivisionError"
          /\ control_ctr' = Stat(df, "control", test)
          /\ UNCHANGED <<experiment_ctr, control_mean, experiment_mean, obs_diff, diffs>>
     ELSE /\ pc' = "loop" /\ error' = error
          /\ IF ObservedCtr
             THEN /\ control_ctr' = Stat(df, "control", test)
                  /\ experiment_ctr' = Stat(df, "experiment", test)
                  /\ UNCHANGED <<control_mean, experiment_mean>>
             ELSE /\ control_mean' = Stat(df, "control", test)
                  /\ experiment_mean' = Stat(df, "experiment", test)
                  /\ UNCHANGED <<control_ctr, experiment_ctr>>
          /\ obs_diff' = FSub(Stat(df, "experiment", test), Stat(df, "control", test))
          /\ diffs' = <<>>
  /\ UNCHANGED <<test, run, first, n, rng, df, b_sample, null_vals, p_value,
                 p_values, conclusion, report, significant>>

\* one iteration of the bootstrap loop
LoopIter ==
  /\ pc = "loop" /\ Len(diffs) < n
  /\ b_sample' = BootstrapSample(df, rng)
  /\ rng' = Advance(rng, Len(df))
  /\ IF IsRatio(test) /\ RatioRaises(b_sample', "control")
     THEN /\ pc' = Uncaught(pc) /\ error' = "ZeroDivisionError"
          /\ UNCHANGED <<control_ctr, experiment_ctr, control_mean, experiment_mean, diffs>>
     ELSE IF IsRatio(test) /\ RatioRaises(b_sample', "experiment")
     THEN /\ pc' = Uncaught(pc) /\ error' = "ZeroDivisionError"
          /\ control_ctr' = Stat(b_sample', "control", test)
          /\ UNCHANGED <<experiment_ctr, control_mean, experiment_mean, diffs>>
     ELSE /\ pc' = pc /\ error' = error
          /\ IF IsRatio(test)
             THEN /\ control_ctr' = Stat(b_sample', "control", test)
                  /\ experiment_ctr' = Stat(b_sample', "experiment", test)
                  /\ UNCHANGED <<control_mean, experiment_mean>>
             ELSE /\ control_mean' = Stat(b_sample', "control", test)
                  /\ experiment_mean' = Stat(b_sample', "experiment", test)
                  /\ UNCHANGED <<control_ctr, experiment_ctr>>
          /\ diffs' = Append(diffs, FSub(Stat(b_sample', "experiment", test),
                                          Stat(b_sample', "control", test)))
  /\ UNCHANGED <<test, run, first, n, df, obs_diff, null_vals, p_value, p_values,
                 conclusion, report, significant>>

\* the loop is exhausted: diffs = np.array(diffs)
LoopExit ==
  /\ pc = "loop" /\ Len(diffs) >= n
  /\ pc' = "null"
  /\ UNCHANGED <<test, run, first, n, rng, df, b_sample, control_ctr, experiment_ctr,
                 control_mean, experiment_mean, obs_diff, diffs, null_vals, p_value,
                 p_values, conclusion, report, significant, error>>

\* np.random.seed(42); null_vals = np.random.normal(0, diffs.std(), diffs.size)
NullDistribution ==
  /\ pc = "null"
  /\ null_vals' = Normal(diffs, Seed(SeedValue))
  /\ rng' = Advance(Seed(SeedValue), Len(diffs))
  /\ pc' = "p_value"
  /\ UNCHANGED <<test, run, first, n, df, b_sample, control_ctr, experiment_ctr,
                 control_mean, experiment_mean, obs_diff, diffs, p_value, p_values,
                 conclusion, report, significant, error>>

\* the tests whose p-value cell holds p_values.append(p_value): the four course
\* tests (AppendsPValueAlways: the variant where the homepage cell holds it too)
AppendsPValueAlways(t) == TRUE
AppendsPValue(t) == t # "homepage_ctr"

\* p_value = (null_vals > obs_diff).mean(), and p_values.append(p_value) in the
\* four course tests
PValue ==
  /\ pc = "p_value"
  /\ p_value' = PValueOf(null_vals, obs_diff)
  /\ p_values' = IF AppendsPValue(test) THEN Append(p_values, p_value') ELSE p_values
  /\ pc' = "conclusion"
  /\ UNCHANGED <<test, run, first, n, rng, df, b_sample, control_ctr, experiment_ctr,
                 control_mean, experiment_mean, obs_diff, diffs, null_vals,
                 conclusion, report, significant, error>>

\* the conclusion stated after the p-value, then on to the next cell
NextTest(t) ==
  IF t = "homepage_ctr" THEN "enrollment_rate"
  ELSE IF t = "enrollment_rate" THEN "reading_duration"
  ELSE IF t = "reading_duration" THEN "classroom_time"
  ELSE "completion_rate"

NextPc(t) ==
  IF t = "homepage_ctr" THEN "init_p_values"
  ELSE IF t = "reading_duration" THEN "read_csv"
  ELSE IF t = "completion_rate" THEN "report"
  ELSE "observed"

Conclusion ==
  /\ pc = "conclusion"
  /\ conclusion' = StatedConclusion(test)
  /\ test' = NextTest(test)
  /\ pc' = NextPc(test)
  /\ UNCHANGED <<run, first, n, rng, df, b_sample, control_ctr, experiment_ctr,
                 control_mean, experiment_mean, obs_diff, diffs, null_vals, p_value,
                 p_values, report, significant, error>>

\* p_values = []
InitPValues ==
  /\ pc = "init_p_values"
  /\ p_values' = <<>>
  /\ pc' = "read_csv"
  /\ UNCHANGED <<test, run, first, n, rng, df, b_sample, control_ctr, experiment_ctr,
                 control_mean, experiment_mean, obs_diff, diffs, null_vals, p_value,
                 conclusion, report, significant, error>>

\* for i, pvalue in enumerate(p_values): print(metrics[i], pvalue), and the
\* statement that follows it
Report ==
  /\ pc = "report"
  /\ IF Len(p_values) > Len(metrics)
     THEN /\ pc' = Uncaught(pc) /\ error' = "IndexError"
          /\ report' = [i \in 1..Len(metrics) |-> [metric |-> metrics[i], pvalue |-> p_values[i]]]
          /\ UNCHANGED significant
     ELSE /\ pc' = "done" /\ error' = error
          /\ report' = [i \in 1..Len(p_values) |-> [metric |-> metrics[i], pvalue |-> p_values[i]]]
          /\ significant' = StatedSignificant
  /\ UNCHANGED <<test, run, first, n, rng, df, b_sample, control_ctr, experiment_ctr,
                 control_mean, experiment_mean, obs_diff, diffs, null_vals, p_value,
                 p_values, conclusion>>

Next ==
  \/ ReadCsv
  \/ Statistics
  \/ Observed
  \/ LoopIter
  \/ LoopExit
  \/ NullDistribution
  \/ PValue
  \/ Conclusion
  \/ InitPValues
  \/ Report

Spec == Init /\ [][Next]_vars

\* ---------------------------------------------------- the homepage test alone
InHomepage == test = "homepage_ctr"

NextHomepage ==
  \/ InHomepage /\ ReadCsv
  \/ InHomepage /\ Statistics
  \/ InHomepage /\ Observed
  \/ InHomepage /\ LoopIter
  \/ InHomepage /\ LoopExit
  \/ InHomepage /\ NullDistribution
  \/ InHomepage /\ PValue
  \/ InHomepage /\ Conclusion

SpecHomepage == Init /\ [][NextHomepage]_vars

\* ------------------------------------------------- a second run of the script
\* the script is started again on the same homepage file once the first run's
\* homepage test has ended: a new process, whose generator is unseeded again
Restart ==
  /\ run = 1 /\ pc = "init_p_values"
  /\ run' = 2
  /\ first' = [df |-> df, diffs |-> diffs, null_vals |-> null_vals, p_value |-> p_value]
  /\ pc' = "read_csv" /\ test' = "homepage_ctr"
  /\ df' = <<>> /\ b_sample' = <<>>
  /\ control_ctr' = NaN /\ experiment_ctr' = NaN
  /\ control_mean' = NaN /\ experiment_mean' = NaN
  /\ obs_diff' = NaN /\ diffs' = <<>> /\ null_vals' = <<>>
  /\ p_value' = NaNP /\ p_values' = <<>>
  /\ conclusion' = "none" /\ report' = <<>> /\ significant' = {}
  /\ error' = "none"
  /\ rng' \in RngStates
  /\ n' = n

NextRerun ==
  \/ NextHomepage
  \/ Restart

SpecRerun == Init /\ [][NextRerun]_vars

\* ------------------------------------------ the loop with its count as input
\* the homepage test with the literal 10000 of range(10000) read as a
\* parameter n of the loop
InitResampler ==
  /\ Fresh
  /\ run = 1 /\ first = NoFirst
  /\ n \in 0..NumIter
  /\ rng \in RngStates

SpecResampler == InitResampler /\ [][NextHomepage]_vars

\* -------------------------------------------- the significance test on its own
\* the script at the p-value cell of a test, for any observed difference and
\* any null distribution (the all-NaN array and the NaN difference arise in
\* the mean tests only); the tests before it have appended their p-values and
\* stated their conclusion, and the names the two cells do not read are left
\* as at the start
TesterValues == {[nan |-> FALSE, ssq |-> SgnSq(v), den |-> 1] : v \in (0 - MaxVal)..MaxVal}
TesterNulls(t) ==
  UNION {[1..k -> TesterValues] : k \in 1..MaxNull}
  \cup (IF IsRatio(t) THEN {} ELSE {[i \in 1..k |-> NaNNull] : k \in 1..MaxNull})
TesterObs(t) ==
  {Num(v) : v \in (0 - MaxVal)..MaxVal} \cup (IF IsRatio(t) THEN {} ELSE {NaN})

\* number of p-values appended before the p-value cell of test t
Appended(t) ==
  IF t \in {"homepage_ctr", "enrollment_rate"} THEN 0
  ELSE IF t = "reading_duration" THEN 1
  ELSE IF t = "classroom_time" THEN 2 ELSE 3

InitTester ==
  /\ test \in TestSet
  /\ pc = "p_value"
  /\ null_vals \in TesterNulls(test)
  /\ obs_diff \in TesterObs(test)
  /\ n = Len(null_vals)
  /\ run = 1 /\ first = NoFirst /\ rng = Advance(Seed(SeedValue), n)
  /\ df = <<>> /\ b_sample = <<>>
  /\ control_ctr = NaN /\ experiment_ctr = NaN
  /\ control_mean = NaN /\ experiment_mean = NaN
  /\ diffs = <<>>
  /\ p_values = [i \in 1..Appended(test) |-> [nan |-> FALSE, num |-> 0, den |-> n]]
  /\ p_value = IF test = "homepage_ctr" THEN NaNP ELSE [nan |-> FALSE, num |-> 0, den |-> n]
  /\ conclusion = IF test = "homepage_ctr" THEN "none" ELSE "reject"
  /\ report = <<>> /\ significant = {}
  /\ error = "none"

NextTester ==
  \/ PValue
  \/ Conclusion

SpecTester == InitTester /\ [][NextTester]_vars

\* ------------------------------------------------------ the report on its own
\* the script at the report cell, for any four p-values k / 10000
ReportCounts == {10, 120, 300, 900}
ReportPValues == {[nan |-> FALSE, num |-> k, den |-> Iterations] : k \in ReportCounts}

InitReport ==
  /\ test = "completion_rate"
  /\ pc = "report"
  /\ p_values \in [1..NumTests -> ReportPValues]
  /\ p_value = p_values[NumTests]
  /\ n = Iterations
  /\ run = 1 /\ first = NoFirst /\ rng = Seed(SeedValue)
  /\ df = <<>> /\ b_sample = <<>>
  /\ control_ctr = NaN /\ experiment_ctr = NaN
  /\ control_mean = NaN /\ experiment_mean = NaN
  /\ obs_diff = NaN /\ diffs = <<>> /\ null_vals = <<>>
  /\ conclusion = "cannot reject" /\ report = <<>> /\ significant = {}
  /\ error = "none"

NextReport ==
  \/ Report

SpecReport == InitReport /\ [][NextReport]_vars

\* ================================================================= claims
Less(x, d) == ~x.nan /\ ~d.nan /\ x.ssq < SgnSq(x.den * d.v)
Above == {i \in 1..Len(null_vals) : Greater(null_vals[i], obs_diff)}
Below == {i \in 1..Len(null_vals) : Less(null_vals[i], obs_diff)}

\* C1: once the p-value step has run on an observed difference d and a
\* non-empty null distribution N, p_value is (number of elements of N strictly
\* greater than d) / (size of N); elements equal to d are not counted, so it is
\* 0 when all of N is below d and 1 when all of N is above d.
C1_PValueIsFractionStrictlyGreater ==
  (pc = "conclusion" /\ ~obs_diff.nan /\ Len(null_vals) > 0) =>
    /\ ~p_value.nan
    /\ p_value.den = Len(null_vals)
    /\ p_value.num = Cardinality(Above)
    /\ (Cardinality(Below) = Len(null_vals) => p_value.num = 0)
    /\ (Cardinality(Above) = Len(null_vals) => p_value.num = p_value.den)

\* a p-value computed from a null distribution holding values above, below and
\* equal to the observed difference
C1_Witness ==
  /\ pc = "conclusion" /\ ~obs_diff.nan
  /\ Above # {} /\ Below # {}
  /\ Cardinality(Above) + Cardinality(Below) < Len(null_vals)
  /\ p_value.num = Cardinality(Above)

\* C2: once the conclusion of a metric test is stated, it is "reject" exactly
\* when p_value < alpha, with alpha = 0.05.
C2_RejectIffBelowAlpha ==
  pc \notin {"p_value", "conclusion"} =>
    ((conclusion = "reject") <=> PLess(p_value, AlphaNum, AlphaDen))

C4_SampleSameSizeFromTable ==
  [][LoopIter =>
       /\ Len(b_sample') = Len(df)
       /\ \A i \in 1..Len(b_sample') : \E j \in 1..Len(df) : b_sample'[i] = df[j]]_vars

\* a draw, from a table of pairwise different rows, that holds a row twice
C4_Witness ==
  /\ test = "homepage_ctr" /\ Len(df) >= 2 /\ Len(b_sample) = Len(df)
  /\ \A i, j \in 1..Len(df) : i # j => df[i] # df[j]
  /\ \E i, j \in 1..Len(b_sample) : i # j /\ b_sample[i] = b_sample[j]

\* C5: in a ratio test, a step that extracts the statistics from a table (df,
\* or the bootstrap sample of the iteration) in which a group has no unique
\* user with a view ends the script with ZeroDivisionError; that group's
\* statistic, obs_diff and diffs are left as they were.
NoViews(tbl) == Views(tbl, "control") = 0 \/ Views(tbl, "experiment") = 0
FailsOn(tbl) ==
  /\ pc' = "aborted" /\ error' = "ZeroDivisionError"
  /\ obs_diff' = obs_diff /\ diffs' = diffs
  /\ (Views(tbl, "control") = 0 => control_ctr' = control_ctr)
  /\ (Views(tbl, "experiment") = 0 => experiment_ctr' = experiment_ctr)

C5_ZeroViewsRaises ==
  [][/\ (Observed /\ IsRatio(test) /\ NoViews(df) => FailsOn(df))
     /\ (LoopIter /\ IsRatio(test) /\ NoViews(b_sample') => FailsOn(b_sample'))]_vars

\* a ratio test ended by a bootstrap sample without a view in one group, on a
\* table that has views in both
C5_Witness ==
  /\ IsRatio(test) /\ pc = "aborted" /\ error = "ZeroDivisionError"
  /\ ~NoViews(df) /\ Len(b_sample) = Len(df) /\ NoViews(b_sample)

\* C6: in a mean test no undefined statistic flows on: while the test is past
\* its observed statistics, obs_diff and every element of diffs are defined.
C6_MeanNeverUndefined ==
  (~IsRatio(test) /\ pc \in {"loop", "null", "p_value", "conclusion"}) =>
    (~obs_diff.nan /\ ~HasNaN(diffs))

\* C7: a step that ends in the raised ZeroDivisionError ends the script and
\* changes none of diffs, null_vals, p_value, p_values and the conclusion; as
\* the error stays, no later step does either.
C7_FailureAbortsTest ==
  [][error' = "ZeroDivisionError" =>
       /\ pc' = "aborted"
       /\ diffs' = diffs /\ null_vals' = null_vals
       /\ p_value' = p_value /\ p_values' = p_values
       /\ conclusion' = conclusion]_vars

\* a test ended inside its loop, after an iteration that went through
C7_Witness ==
  /\ error = "ZeroDivisionError" /\ pc = "aborted"
  /\ Len(diffs) >= 1 /\ Len(diffs) < n

C9_BonferroniVerdicts ==
  pc = "done" =>
    \A i \in 1..Len(p_values) :
      (metrics[i] \in significant)
        <=> PLess(p_values[i], AlphaNum, AlphaDen * Len(p_values))

\* C10: a second run of the homepage test on the same table that reaches its
\* end has the sampling distribution, the null distribution and the p-value
\* of the first run.
C10_SecondRunReproducesFirst ==
  (run = 2 /\ pc = "init_p_values") =>
    /\ diffs = first.diffs
    /\ null_vals = first.null_vals
    /\ p_value = first.p_value

\* the mean of duration over the rows of group g in tbl whose action is 'view'
ViewMean(tbl, g) == SeriesMean(Column(WithAction(InGroup(tbl, g), "view"), "duration"))
MeansFrom == IF diffs = <<>> THEN df ELSE b_sample

\* C11: in the reading duration test the two group statistics, as observed on
\* df and as computed in every loop iteration on b_sample, are the mean of
\* duration over the 'view' rows of the group only.
C11_ReadingMeanOverViewsOnly ==
  (test = "reading_duration" /\ pc = "loop") =>
    /\ control_mean = ViewMean(MeansFrom, "control")
    /\ experiment_mean = ViewMean(MeansFrom, "experiment")

\* C12: when the script reaches the report, p_values holds exactly four
\* entries; each course test appends its p-value at the position of its metric
\* in metrics (Enrollment Rate, Average Reading Duration, Average Classroom
\* Time, Completion Rate) and no other step changes p_values but p_values = [],
\* so p_values[i] is the p-value of metrics[i]; the homepage test, which runs
\* before p_values = [], appends nothing.
C12_FourPValuesInMetricOrder ==
  /\ [](pc = "report" => Len(p_values) = Len(metrics))
  /\ [](test = "homepage_ctr" => p_values = <<>>)
  /\ [][IF pc = "p_value" /\ test # "homepage_ctr"
        THEN /\ p_values' = Append(p_values, p_value')
             /\ Len(p_values') = Appended(test) + 1
        ELSE pc # "init_p_values" => p_values' = p_values]_vars

\* the report is reached with four p-values that are not all the same, the
\* last one being the completion rate's
C12_Witness ==
  /\ pc = "report" /\ error = "none" /\ Len(p_values) = NumTests
  /\ p_values[NumTests] = p_value
  /\ \E i, j \in 1..NumTests : p_values[i] # p_values[j]

====
